---- MODULE Spec2Model ----
(***************************************************************************)
(* A model of the Mercury soft-navigation engine (src/src/Mercury.js)      *)
(* together with the parts of its host it drives: the session history,     *)
(* XMLHttpRequest, window timers, the live document and window.location.   *)
(*                                                                         *)
(* Every event handler of the engine runs to completion on the single UI   *)
(* event loop, so each handler is one action.  The handlers are written as *)
(* operators from a "world" record (the mutable state) to a world record,  *)
(* composed in the order of the statements of the source.                  *)
(*                                                                         *)
(* Host behaviour the engine relies on, as the standards define it:        *)
(*  - XMLHttpRequest.abort() on a request that has been sent and is not    *)
(*    yet done sets readyState to DONE, makes the response a network       *)
(*    error (status 0) and fires readystatechange synchronously, before    *)
(*    abort() returns (XMLHttpRequest Standard, "request error steps");    *)
(*    abort() on a request that is already done fires nothing.             *)
(*  - a network error and a timeout fire readystatechange (DONE, status    *)
(*    0) and then the error / timeout event.                               *)
(*  - a history traversal makes the target entry the current entry and     *)
(*    updates window.location before popstate is fired.                    *)
(*  - pushState discards the entries after the current one.                *)
(*  - assigning window.location starts a top-level navigation; the page    *)
(*    keeps processing events until the document is unloaded.              *)
(*                                                                         *)
(* Selectors denote disjoint, non-nested elements; an element's inner      *)
(* content is an opaque markup string.                                     *)
(***************************************************************************)
EXTENDS Integers, Sequences, FiniteSets, TLC

VARIABLES
  supported,               \* whether the browser has history.pushState and querySelector
  rawConfig,               \* the argument of new Mercury(config)
  instance,                \* how construction ended, and the fields only it assigns
  updateMatrix,            \* this.updateMatrix
  enableCache,             \* this.enableCache
  onLoadDelay,             \* this.onLoadDelay
  onRequestExceptions,     \* config.onRequestExceptions (source of onRequestExceptionRegex)
  onClickExceptions,       \* config.onClickExceptions (caller-supplied exception selectors)
  cache,                   \* this.cache
  XHR,                     \* this.XHR: index into reqs, 0 when undefined
  onLoadDelayTimeout,      \* this.onLoadDelayTimeout: timer id, 0 when undefined
  bound,                   \* whether the click/popstate listeners are bound
  reqs,                    \* every XMLHttpRequest created so far, with its closure
  timers,                  \* the pending window timers
  hist,                    \* window.history: the session history entries
  hidx,                    \* index of the current entry
  scrollPos,               \* window.pageXOffset / pageYOffset
  dom,                     \* the live document, by selector
  docUrl,                  \* the URL whose response the live document shows
  navTo,                   \* the top-level navigation started by window.location = url
  unloaded,                \* the document has been unloaded by a top-level navigation
  budget                   \* what one run explores: navigations, hash entries, cache entries

vars == << supported, rawConfig, instance, updateMatrix, enableCache, onLoadDelay, onRequestExceptions,
           onClickExceptions, cache, XHR, onLoadDelayTimeout, bound, reqs,
           timers, hist, hidx, scrollPos, dom, docUrl, navTo, unloaded, budget >>

fixed == << supported, rawConfig, updateMatrix, enableCache, onLoadDelay, onRequestExceptions,
             onClickExceptions, budget >>

----------------------------------------------------------------------------
(* Bounds of the model *)

\* navigations dispatched (calls of makeRequest) in a run of Spec
MaxNav == 2

\* navigations dispatched in a run of SpecCache and of SpecConstruct
MaxCacheNav == 1

\* (url, selector) pairs committed to the cache in a run of SpecCache
MaxCommit == 1

\* rules in an update matrix passed to the constructor in a run of SpecConstruct
MaxRules == 2

----------------------------------------------------------------------------
(* Values *)

Urls == {"/a", "/b"}

Selectors == {"title", ".content"}

Markup == {"", "<p>1</p>", "<p>2</p>"}

AttrNames == {"class", "id"}

NoAttr == "<absent>"

AttrValues == {"v1", "v2"}

NoAttrs == [n \in AttrNames |-> NoAttr]

\* querySelector found no element
Absent == [present |-> FALSE, html |-> "", attrs |-> NoAttrs]

Elem(html, attrs) == [present |-> TRUE, html |-> html, attrs |-> attrs]

NoScroll == [has |-> FALSE, x |-> 0, y |-> 0]

Scroll(x, y) == [has |-> TRUE, x |-> x, y |-> y]

\* the offsets the user scrolls to
Offsets == {[x |-> 0, y |-> 0], [x |-> 1, y |-> 2]}

\* a history entry's state object: null, or {url, scroll?}
NoState == [has |-> FALSE, url |-> "", scroll |-> NoScroll]

NoCallback == [has |-> FALSE, state |-> NoState]

NoNav == [has |-> FALSE, url |-> ""]

\* the words a response body may contain that a request exception may name
Words == {"login"}

\* A response body: its text (the words it contains) and the document that
\* DOMParser.parseFromString builds from it.
Body(words, title, content) ==
  [words |-> words, doc |-> [s \in Selectors |-> IF s = "title" THEN title ELSE content]]

\* the pages the server answers with: an ordinary page, and a login page
\* without the content element
Bodies ==
  { Body({}, Elem("<p>1</p>", [NoAttrs EXCEPT !["class"] = "v1"]),
             Elem("<p>2</p>", [NoAttrs EXCEPT !["id"] = "v2"])),
    Body({"login"}, Elem("<p>2</p>", [NoAttrs EXCEPT !["class"] = "v2"]), Absent) }

\* the response of a request that has none: responseText is the empty string
EmptyBody == Body({}, Absent, Absent)

\* what the server may answer: 200 with a page, or 404 with an error page
Responses ==
  {[status |-> 200, responseText |-> b] : b \in Bodies}
  \cup {[status |-> 404, responseText |-> Body({}, Elem("<p>2</p>", NoAttrs), Absent)]}

----------------------------------------------------------------------------
(* JavaScript values, as far as the engine tells them apart: by typeof, by  *)
(* truthiness, by comparison with 0 and by identity.                        *)

Val(kind, b, n, s) == [kind |-> kind, b |-> b, n |-> n, s |-> s]

Undefined == Val("undefined", FALSE, 0, "")

Null == Val("null", FALSE, 0, "")

NaN == Val("NaN", FALSE, 0, "")

Bool(b) == Val("boolean", b, 0, "")

Num(n) == Val("number", FALSE, n, "")

Str(s) == Val("string", FALSE, 0, s)

\* a function, told from other functions by a name
Function(name) == Val("function", FALSE, 0, name)

\* typeof v
typeof(v) ==
  CASE v.kind = "null" -> "object"
    [] v.kind = "NaN" -> "number"
    [] v.kind = "array" -> "object"
    [] OTHER -> v.kind

\* v in a condition: if (v)
truthy(v) ==
  CASE v.kind \in {"undefined", "null", "NaN"} -> FALSE
    [] v.kind = "boolean" -> v.b
    [] v.kind = "number" -> v.n # 0
    [] v.kind = "string" -> v.s # ""
    [] OTHER -> TRUE

\* v < 0 for a v whose typeof is "number": false for NaN
lessThanZero(v) == v.kind = "number" /\ v.n < 0

----------------------------------------------------------------------------
(* The mutable state as one record, so that the statements of a handler    *)
(* compose in source order.                                                *)

World ==
  [ reqs |-> reqs, XHR |-> XHR, timers |-> timers,
    onLoadDelayTimeout |-> onLoadDelayTimeout, hist |-> hist, hidx |-> hidx,
    scrollPos |-> scrollPos, dom |-> dom, docUrl |-> docUrl, navTo |-> navTo,
    cache |-> cache ]

Becomes(w) ==
  /\ reqs' = w.reqs
  /\ XHR' = w.XHR
  /\ timers' = w.timers
  /\ onLoadDelayTimeout' = w.onLoadDelayTimeout
  /\ hist' = w.hist
  /\ hidx' = w.hidx
  /\ scrollPos' = w.scrollPos
  /\ dom' = w.dom
  /\ docUrl' = w.docUrl
  /\ navTo' = w.navTo
  /\ cache' = w.cache

\* records an observable effect of request r, in the order the code produces it
Effect(w, r, name) == [w EXCEPT !.reqs[r].fx = Append(@, name)]

----------------------------------------------------------------------------
(* Host primitives *)

\* window.location.pathname + window.location.search
locationPath(w) == w.hist[w.hidx].url

\* window.history.replaceState(stateObject, title, url)
replaceState(w, stateObject, url) ==
  [w EXCEPT !.hist[w.hidx] = [url |-> url, state |-> stateObject]]

\* window.history.pushState(stateObject, title, url)
pushState(w, stateObject, url) ==
  [w EXCEPT !.hist = Append(SubSeq(w.hist, 1, w.hidx), [url |-> url, state |-> stateObject]),
            !.hidx = w.hidx + 1]

\* window.scrollTo(x, y)
scrollTo(w, x, y) == [w EXCEPT !.scrollPos = [x |-> x, y |-> y]]

\* a variant that cancels nothing; C23_OneTimerNoRequest must reject it
clearTimeout_cancellingNothing(w, id) == w

\* window.clearTimeout(id)
clearTimeout(w, id) == [w EXCEPT !.timers = @ \ {id}]

\* window.location = url, executed in the handler of request r
setLocation(w, r) ==
  [Effect(w, r, "location") EXCEPT !.navTo = [has |-> TRUE, url |-> w.reqs[r].url]]

----------------------------------------------------------------------------
(* src/src/utils.js *)

removeAttribute(element, name) == [element EXCEPT !.attrs[name] = NoAttr]

setAttribute(element, name, value) == [element EXCEPT !.attrs[name] = value]

attributes(element) == {n \in AttrNames : element.attrs[n] # NoAttr}

RECURSIVE removeEach(_, _)
removeEach(element, names) ==
  IF names = {} THEN element
  ELSE LET n == CHOOSE n \in names : TRUE
       IN removeEach(removeAttribute(element, n), names \ {n})

RECURSIVE setEach(_, _, _)
setEach(element, referenceElement, names) ==
  IF names = {} THEN element
  ELSE LET n == CHOOSE n \in names : TRUE
       IN setEach(setAttribute(element, n, referenceElement.attrs[n]),
                  referenceElement, names \ {n})

\* a variant that sets the reference's attributes without removing the
\* element's own first; C18_AttributesReplaced must reject it
replaceAttributes_keepingOld(element, referenceElement) ==
  setEach(element, referenceElement, attributes(referenceElement))

replaceAttributes(element, referenceElement) ==
  setEach(removeEach(element, attributes(element)), referenceElement,
          attributes(referenceElement))

----------------------------------------------------------------------------
(* Mercury.replaceHistoryStateWithScrollPosition *)

replaceHistoryStateWithScrollPosition(w) ==
  LET url == locationPath(w)
      stateObject == [has |-> TRUE, url |-> url,
                      scroll |-> Scroll(w.scrollPos.x, w.scrollPos.y)]
  IN replaceState(w, stateObject, url)

----------------------------------------------------------------------------
(* Mercury.updateDOM *)

\* this.cache[url][selector], as a JavaScript truth value: an entry that is
\* missing, and an entry that holds the empty string, are both falsy
cacheTruthy(url, selector) ==
  /\ cache[url].has
  /\ cache[url].map[selector].set
  /\ cache[url].map[selector].html # ""

\* a variant of the callback without the else branch: an element the
\* response no longer has stays in the document; C19_PatchByPresence must
\* reject it
updateRule_keepingOrphans(d, url, newDoc, updateConfig) ==
  LET activeElement == d[updateConfig.selector]
      referenceElement == newDoc[updateConfig.selector]
  IN IF activeElement.present /\ referenceElement.present
     THEN LET hasCached == enableCache /\ cacheTruthy(url, updateConfig.selector)
              newHTML == IF hasCached THEN cache[url].map[updateConfig.selector].html
                         ELSE referenceElement.html
              e1 == IF updateConfig.updateHTML
                    THEN [activeElement EXCEPT !.html = newHTML]
                    ELSE activeElement
              e2 == IF updateConfig.updateAttrs
                    THEN replaceAttributes(e1, referenceElement)
                    ELSE e1
          IN [d EXCEPT ![updateConfig.selector] = e2]
     ELSE d

\* the body of the forEach callback, for one rule of the update matrix
updateRule(d, url, newDoc, updateConfig) ==
  LET activeElement == d[updateConfig.selector]
      referenceElement == newDoc[updateConfig.selector]
  IN IF activeElement.present /\ referenceElement.present
     THEN LET hasCached == enableCache /\ cacheTruthy(url, updateConfig.selector)
              newHTML == IF hasCached THEN cache[url].map[updateConfig.selector].html
                         ELSE referenceElement.html
              e1 == IF updateConfig.updateHTML
                    THEN [activeElement EXCEPT !.html = newHTML]
                    ELSE activeElement
              e2 == IF updateConfig.updateAttrs
                    THEN replaceAttributes(e1, referenceElement)
                    ELSE e1
          IN [d EXCEPT ![updateConfig.selector] = e2]
     ELSE IF activeElement.present
          THEN [d EXCEPT ![updateConfig.selector] = Absent]
          ELSE d

\* document.querySelector(selector) throws a SyntaxError for a string that
\* is not a selector
isSelector(s) == s # "div["

\* the first rule at which document.querySelector throws; 0 when none does
throwingRule ==
  LET bad == {i \in 1..Len(updateMatrix) : ~isSelector(updateMatrix[i].selector)}
  IN IF bad = {} THEN 0 ELSE CHOOSE i \in bad : \A j \in bad : i <= j

\* the forEach over this.updateMatrix; the exception of a rule ends it
RECURSIVE forEachRule(_, _, _, _)
forEachRule(d, url, newDoc, i) ==
  IF i > Len(updateMatrix) \/ i = throwingRule THEN d
  ELSE forEachRule(updateRule(d, url, newDoc, updateMatrix[i]), url, newDoc, i + 1)

\* a variant of updateDOM that also opens a cache entry for the url it
\* patches; C11_CacheFrame must reject it
updateDOM_caching(w, url, responseText) ==
  LET newDoc == responseText.doc
      w1 == [w EXCEPT !.dom = forEachRule(w.dom, url, newDoc, 1), !.docUrl = url,
                      !.cache[url].has = TRUE]
  IN scrollTo(w1, 0, 0)

\* when a rule throws, the rules before it have been applied and
\* window.scrollTo is not reached
updateDOM(w, url, responseText) ==
  LET newDoc == responseText.doc
      w1 == [w EXCEPT !.dom = forEachRule(w.dom, url, newDoc, 1),
                      !.docUrl = IF throwingRule = 0 THEN url ELSE @]
  IN IF throwingRule = 0 THEN scrollTo(w1, 0, 0) ELSE w1

----------------------------------------------------------------------------
(* Mercury.modifyPageAndHistory, and the callback onPopState passes to it *)

\* a variant of the callback that ignores the stored offset; C9_ReplayRestoresScroll
\* must reject it
popStateCallback_toTop(w, state) ==
  scrollTo(w, 0, 0)

\* the arrow function of onPopState, closed over e.state
popStateCallback(w, state) ==
  IF state.scroll.has
  THEN scrollTo(w, state.scroll.x, state.scroll.y)
  ELSE scrollTo(w, 0, 0)

\* a variant of modifyPageAndHistory that pushes an entry for a replay too;
\* C8_AppliedNavigationDepth must reject it
modifyPageAndHistory_alwaysPush(w, r, responseText) ==
  LET q == w.reqs[r]
      w1 == Effect(pushState(w, [has |-> TRUE, url |-> q.url, scroll |-> NoScroll], q.url),
                   r, "pushState")
      w2 == Effect(updateDOM(w1, q.url, responseText), r, "updateDOM")
      w3 == IF q.callback.has
            THEN Effect(popStateCallback(w2, q.callback.state), r, "callback")
            ELSE w2
  IN Effect(w3, r, "load")

\* a variant of modifyPageAndHistory that announces the load before it runs the
\* callback; C3_EffectOrder must reject it
modifyPageAndHistory_loadBeforeCallback(w, r, responseText) ==
  LET q == w.reqs[r]
      w1 == IF ~q.isPopState
            THEN Effect(pushState(w, [has |-> TRUE, url |-> q.url, scroll |-> NoScroll], q.url),
                        r, "pushState")
            ELSE w
      w2 == Effect(updateDOM(w1, q.url, responseText), r, "updateDOM")
      w3 == Effect(w2, r, "load")
  IN IF q.callback.has
     THEN Effect(popStateCallback(w3, q.callback.state), r, "callback")
     ELSE w3

\* request r carries the closure (url, isPopState, callback) of its makeRequest.
\* An exception of updateDOM leaves through modifyPageAndHistory ("throw"):
\* what ran before it stays done, what comes after it does not run.
modifyPageAndHistory(w, r, responseText) ==
  LET q == w.reqs[r]
      w1 == IF ~q.isPopState
            THEN Effect(pushState(w, [has |-> TRUE, url |-> q.url, scroll |-> NoScroll], q.url),
                        r, "pushState")
            ELSE w
      w2 == Effect(updateDOM(w1, q.url, responseText), r,
                   IF throwingRule = 0 THEN "updateDOM" ELSE "throw")
      w3 == IF q.callback.has
            THEN Effect(popStateCallback(w2, q.callback.state), r, "callback")
            ELSE w2
  IN IF throwingRule = 0 THEN Effect(w3, r, "load") ELSE w2

----------------------------------------------------------------------------
(* Mercury.makeRequest: the handlers it installs, then the dispatch itself *)

\* a variant of matchesExceptions that never looks at the body; C5_RequestException
\* must reject it
matchesExceptions_ignoringBody(responseText) ==
  Len(onRequestExceptions) = 0

\* responseText.match(this.onRequestExceptionRegex) !== null, the regex being
\* the patterns joined by '|'; match(undefined) matches every string
matchesExceptions(responseText) ==
  IF Len(onRequestExceptions) = 0 THEN TRUE
  ELSE \E i \in 1..Len(onRequestExceptions) : onRequestExceptions[i] \in responseText.words

\* window.setTimeout(() => modifyPageAndHistory(url, isPopState, callback,
\* e.target.responseText), onLoadDelay) in the handler of request r; the timer
\* is identified by r
setTimeout(w, r) ==
  [w EXCEPT !.timers = @ \cup {r}, !.onLoadDelayTimeout = r]

\* a variant of onreadystatechange without the status check; C4_FailureFallsBack
\* must reject it
onreadystatechange_anyStatus(w, r) ==
  LET isRegExp == Len(onRequestExceptions) > 0
      doesNotMatchExceptions == matchesExceptions(w.reqs[r].responseText)
  IN IF isRegExp /\ doesNotMatchExceptions THEN setLocation(w, r)
     ELSE LET w1 == Effect(w, r, "unload")
          IN IF truthy(onLoadDelay)
             THEN setTimeout(w1, r)
             ELSE modifyPageAndHistory(w1, r, w1.reqs[r].responseText)

\* XHR.onreadystatechange of request r, called with readyState DONE; e.target
\* is w.reqs[r].  The try block ends when the handler returns: it catches the
\* exception of the immediate apply and logs it with console.error, and has
\* been left long before the timer runs the delayed apply.
onreadystatechange(w, r) ==
  IF w.reqs[r].status # 200 THEN setLocation(w, r)
  ELSE LET isRegExp == Len(onRequestExceptions) > 0
           doesNotMatchExceptions == matchesExceptions(w.reqs[r].responseText)
       IN IF isRegExp /\ doesNotMatchExceptions THEN setLocation(w, r)
          ELSE LET w1 == Effect(w, r, "unload")
                   w2 == modifyPageAndHistory(w1, r, w1.reqs[r].responseText)
               IN IF truthy(onLoadDelay) THEN setTimeout(w1, r)
                  ELSE IF throwingRule = 0 THEN w2
                  ELSE Effect(w2, r, "console.error")

\* XHR.ontimeout and XHR.onerror of request r
ontimeout(w, r) == setLocation(w, r)

onerror(w, r) == setLocation(w, r)

\* a variant of makeRequest that captures the scroll position before it
\* notifies onNavigate; C22_AbortThenNotify must reject it
makeRequest_captureFirst(w, url, isPopState, callback, steps) ==
  LET w1 == replaceHistoryStateWithScrollPosition(w)
      s1 == Append(steps, "replaceState")
      s2 == Append(s1, "onNavigate")
      q == [url |-> url, isPopState |-> isPopState, callback |-> callback,
            st |-> "sent", status |-> 0, responseText |-> EmptyBody,
            pre |-> Append(s2, "send"), fx |-> << >>]
  IN [w1 EXCEPT !.reqs = Append(@, q), !.XHR = Len(w.reqs) + 1]

\* steps are the steps the calling handler has taken before makeRequest
makeRequest(w, url, isPopState, callback, steps) ==
  LET s1 == Append(steps, "onNavigate")
      w1 == replaceHistoryStateWithScrollPosition(w)
      s2 == Append(s1, "replaceState")
      q == [url |-> url, isPopState |-> isPopState, callback |-> callback,
            st |-> "sent", status |-> 0, responseText |-> EmptyBody,
            pre |-> Append(s2, "send"), fx |-> << >>]
  IN [w1 EXCEPT !.reqs = Append(@, q), !.XHR = Len(w.reqs) + 1]

\* XMLHttpRequest.abort() on request r: a request that is sent and not done
\* becomes DONE with a network error as its response (status 0) and
\* readystatechange is fired at it; a request that is done is only reset,
\* which nothing in the engine observes
abort(w, r) ==
  IF w.reqs[r].st = "sent"
  THEN onreadystatechange([w EXCEPT !.reqs[r].st = "aborted"], r)
  ELSE w

\* a variant of the supersession that leaves the pending timer alone;
\* C2_LatestWins must reject it
abortAndClear_keepingTimer(w) ==
  IF w.XHR # 0 THEN abort(w, w.XHR) ELSE w

\* if (this.XHR) { this.XHR.abort(); window.clearTimeout(this.onLoadDelayTimeout); }
abortAndClear(w) ==
  IF w.XHR # 0
  THEN LET w1 == abort(w, w.XHR) IN clearTimeout(w1, w1.onLoadDelayTimeout)
  ELSE w

stepsOfAbortAndClear(w) ==
  IF w.XHR # 0 THEN <<"abort", "clearTimeout">> ELSE << >>

----------------------------------------------------------------------------
(* Click events.  A click carries its modifier keys and the chain of       *)
(* elements from the event target upwards (parentElement), which ends at   *)
(* document.body, or at the root element when the click is outside body.   *)

\* An element of the chain.  hrefKind is the prefix of the href attribute the
\* exception selectors test ("none": no href attribute; "path": a same-origin
\* path such as /b, given by href).
Node(tagName, hrefKind, href, target, class) ==
  [tagName |-> tagName, hrefKind |-> hrefKind, href |-> href, target |-> target,
   class |-> class]

Link(url) == Node("A", "path", url, "", "")

Span == Node("SPAN", "none", "", "", "")

BodyNode == Node("BODY", "none", "", "", "")

HtmlNode == Node("HTML", "none", "", "", "")

NoKeys == [metaKey |-> FALSE, ctrlKey |-> FALSE, altKey |-> FALSE, shiftKey |-> FALSE]

ClickEvent(keys, path) == [keys |-> keys, path |-> path]

ClickEvents ==
  {ClickEvent(NoKeys, <<Link(u), BodyNode>>) : u \in Urls}
  \cup {ClickEvent(NoKeys, <<Span, Link("/b"), BodyNode>>),
        ClickEvent(NoKeys, <<Span, BodyNode>>),
        ClickEvent(NoKeys, <<HtmlNode>>),
        ClickEvent(NoKeys, <<Node("A", "none", "", "", ""), BodyNode>>),
        ClickEvent(NoKeys, <<Node("A", "#", "", "", ""), BodyNode>>),
        ClickEvent(NoKeys, <<Node("A", "/#", "", "", ""), BodyNode>>),
        ClickEvent(NoKeys, <<Node("A", "http", "http://other/", "", ""), BodyNode>>),
        ClickEvent(NoKeys, <<Node("A", "tel", "tel:1", "", ""), BodyNode>>),
        ClickEvent(NoKeys, <<Node("A", "mailto", "mailto:a", "", ""), BodyNode>>),
        ClickEvent(NoKeys, <<Node("A", "javascript", "javascript:0", "", ""), BodyNode>>),
        ClickEvent(NoKeys, <<Span, Node("A", "path", "/b", "_blank", ""), BodyNode>>),
        ClickEvent(NoKeys, <<Node("A", "path", "/b", "_blank", ""), BodyNode>>),
        ClickEvent(NoKeys, <<Node("A", "path", "/b", "", "no-mercury"), BodyNode>>),
        ClickEvent([NoKeys EXCEPT !.metaKey = TRUE], <<Link("/b"), BodyNode>>),
        ClickEvent([NoKeys EXCEPT !.ctrlKey = TRUE], <<Link("/b"), BodyNode>>),
        ClickEvent([NoKeys EXCEPT !.altKey = TRUE], <<Link("/b"), BodyNode>>),
        ClickEvent([NoKeys EXCEPT !.shiftKey = TRUE], <<Link("/b"), BodyNode>>)}

\* src/src/constants.js
BASE_ON_CLICK_EXCEPTIONS ==
  << "a:not([href])", "[href^=\"http\"]", "[href^=\"#\"]", "[href^=\"/#\"]",
     "[target=\"_blank\"]", "[href^=\"tel\"]", "[href^=\"mailto\"]",
     "[href^=\"javascript\"]" >>

\* element.matches(selector) for one selector of the list
matchesOne(node, selector) ==
  CASE selector = "a:not([href])" -> node.tagName = "A" /\ node.hrefKind = "none"
    [] selector = "[href^=\"http\"]" -> node.hrefKind = "http"
    [] selector = "[href^=\"#\"]" -> node.hrefKind = "#"
    [] selector = "[href^=\"/#\"]" -> node.hrefKind = "/#"
    [] selector = "[target=\"_blank\"]" -> node.target = "_blank"
    [] selector = "[href^=\"tel\"]" -> node.hrefKind = "tel"
    [] selector = "[href^=\"mailto\"]" -> node.hrefKind = "mailto"
    [] selector = "[href^=\"javascript\"]" -> node.hrefKind = "javascript"
    [] selector = ".no-mercury" -> node.class = "no-mercury"
    [] OTHER -> FALSE

\* this.onClickExceptionSelector: the base list and the caller's, joined by ','
onClickExceptionSelector == BASE_ON_CLICK_EXCEPTIONS \o onClickExceptions

\* target.matches(this.onClickExceptionSelector)
matches(node, selectors) ==
  \E i \in 1..Len(selectors) : matchesOne(node, selectors[i])

isKeyModified(e) == e.keys.metaKey \/ e.keys.ctrlKey \/ e.keys.altKey \/ e.keys.shiftKey

\* the while loop of onClick: the index in the chain where the walk stops;
\* Len(path) + 1 stands for target = null
RECURSIVE walkUp(_, _)
walkUp(path, i) ==
  IF i <= Len(path) /\ path[i].tagName # "BODY" /\ path[i].tagName # "A"
  THEN walkUp(path, i + 1)
  ELSE i

\* a variant of the test that ignores the modifier keys;
\* C13_ClickInterception must reject it
intercepts_ignoringKeys(e) ==
  LET i == walkUp(e.path, 1)
  IN ~ (i > Len(e.path) \/ e.path[i].tagName = "BODY"
        \/ matches(e.path[i], onClickExceptionSelector))

\* whether onClick reaches e.preventDefault()
intercepts(e) ==
  IF isKeyModified(e) THEN FALSE
  ELSE LET i == walkUp(e.path, 1)
       IN ~ (i > Len(e.path) \/ e.path[i].tagName = "BODY"
             \/ matches(e.path[i], onClickExceptionSelector))

\* Mercury.onClick, from e.preventDefault() on
onClick(w, e) ==
  IF ~intercepts(e) THEN w
  ELSE LET target == e.path[walkUp(e.path, 1)]
       IN makeRequest(abortAndClear(w), target.href, FALSE, NoCallback,
                      stepsOfAbortAndClear(w))

\* Mercury.onPopState
onPopState(w, e) ==
  IF ~e.state.has THEN w
  ELSE makeRequest(abortAndClear(w), e.state.url, TRUE,
                   [has |-> TRUE, state |-> e.state], stepsOfAbortAndClear(w))

\* The browser's default action for a click nobody prevented: a same-page
\* hash link adds a history entry without state; a link to another page in
\* this window starts a top-level navigation; anything else (a modified
\* click, a new-tab link, no link, tel: and the like) leaves this page alone.
defaultAction(w, e) ==
  LET i == walkUp(e.path, 1)
      node == IF i <= Len(e.path) THEN e.path[i] ELSE HtmlNode
  IN IF isKeyModified(e) \/ node.tagName # "A" \/ node.target = "_blank" THEN w
     ELSE IF node.hrefKind \in {"#", "/#"}
          THEN pushState(w, NoState, locationPath(w))
          ELSE IF node.hrefKind \in {"path", "http"}
               THEN [w EXCEPT !.navTo = [has |-> TRUE, url |-> node.href]]
               ELSE w

----------------------------------------------------------------------------
(* Mercury.commitCacheEntry and Mercury.destroy *)

NoEntry == [set |-> FALSE, html |-> ""]

EmptyCache == [u \in Urls |-> [has |-> FALSE, map |-> [s \in Selectors |-> NoEntry]]]

\* "" stands for a falsy url or selector.  When no element matches, the read
\* of innerHTML throws a TypeError to the caller, after this.cache[url] was
\* initialised.
commitCacheEntry(c, d, url, selector) ==
  IF ~enableCache \/ url = "" \/ selector = "" THEN c
  ELSE LET c1 == [c EXCEPT ![url].has = TRUE]
       IN IF ~d[selector].present THEN c1
          ELSE [c1 EXCEPT ![url].map[selector] = [set |-> TRUE, html |-> d[selector].html]]

\* Mercury.destroy, up to the removal of the listeners
destroy(w) ==
  LET w1 == IF w.XHR # 0 THEN abort(w, w.XHR) ELSE w
  IN clearTimeout(w1, w1.onLoadDelayTimeout)

----------------------------------------------------------------------------
(* src/src/validation.js *)

\* an array, and a value that is not one
Array(items) == [kind |-> "array", items |-> items]

NotArray(kind) == [kind |-> kind, items |-> << >>]

\* a rule of the update matrix as the caller wrote it: an object, or a value
\* that is not one (its properties then read as undefined)
RuleObject(selector, updateHTML, updateAttrs) ==
  [kind |-> "object", selector |-> selector, updateHTML |-> updateHTML,
   updateAttrs |-> updateAttrs]

NotObject(kind) ==
  [kind |-> kind, selector |-> Undefined, updateHTML |-> Undefined,
   updateAttrs |-> Undefined]

\* how a call ends: with a return value, or with a TypeError
Returns(ret) == [called |-> TRUE, threw |-> FALSE, ret |-> ret]

Throws == [called |-> TRUE, threw |-> TRUE, ret |-> FALSE]

NotCalled == [called |-> FALSE, threw |-> FALSE, ret |-> FALSE]

\* matrix.every(callback) from index i on: false at the first rule the
\* callback rejects; destructuring null or undefined throws
RECURSIVE every(_, _)
every(items, i) ==
  IF i > Len(items) THEN Returns(TRUE)
  ELSE LET updateConfig == items[i]
       IN IF updateConfig.kind \in {"null", "undefined"} THEN Throws
          ELSE IF typeof(updateConfig.selector) # "string" THEN Returns(FALSE)
          ELSE LET nonBooleanUpdateHTML ==
                     /\ typeof(updateConfig.updateHTML) # "undefined"
                     /\ typeof(updateConfig.updateHTML) # "boolean"
                   nonBooleanUpdateAttrs ==
                     /\ typeof(updateConfig.updateAttrs) # "undefined"
                     /\ typeof(updateConfig.updateAttrs) # "boolean"
               IN IF nonBooleanUpdateHTML \/ nonBooleanUpdateAttrs THEN Returns(FALSE)
                  ELSE every(items, i + 1)

isValidUpdateMatrix(matrix) ==
  IF matrix.kind # "array" THEN Returns(FALSE)
  ELSE every(matrix.items, 1)

validateOptionalParam(param, type, fallback) ==
  IF param = Undefined THEN fallback
  ELSE IF typeof(param) # type THEN fallback
  ELSE param

validateOnLoadDelay(delayTime) ==
  IF delayTime = Undefined THEN Num(0)
  ELSE IF typeof(delayTime) # "number" THEN Num(0)
  ELSE IF lessThanZero(delayTime) THEN Num(0)
  ELSE delayTime

----------------------------------------------------------------------------
(* Mercury.constructor and Mercury.validateAndAssignConfig *)

\* undefined flags of a rule are falsy, and are written FALSE
Rule(selector, updateHTML, updateAttrs) ==
  [selector |-> selector, updateHTML |-> updateHTML, updateAttrs |-> updateAttrs]

\* this.updateMatrix as updateDOM reads it
rulesOf(matrix) ==
  [i \in 1..Len(matrix.items) |->
     Rule(matrix.items[i].selector.s, truthy(matrix.items[i].updateHTML),
          truthy(matrix.items[i].updateAttrs))]

\* the fields of an object on which the constructor has assigned nothing
Unassigned ==
  [ phase |-> "new", error |-> "", ok |-> FALSE, isValidUpdateMatrix |-> NotCalled,
    updateMatrix |-> << >>, enableCache |-> FALSE, onLoadDelay |-> Undefined,
    onRequestExceptions |-> << >>, onClickExceptions |-> << >>,
    timeout |-> Undefined, onLoad |-> Undefined, onUnload |-> Undefined,
    onNavigate |-> Undefined, hasEvents |-> FALSE, bound |-> FALSE ]

\* new RegExp(pattern, 'gi') throws a SyntaxError for a pattern that is not a
\* regular expression
isPattern(s) == s # "("

\* validateAndAssignConfig: ok is the value returned, error the error thrown.
\* The parameter is destructured, which throws for undefined and null; the
\* default [] replaces an undefined exception list only.
validateAndAssignConfig(config, o) ==
  IF config.kind # "object" THEN [o EXCEPT !.error = "TypeError"]
  ELSE
    LET valid == isValidUpdateMatrix(config.updateMatrix)
        o1 == [o EXCEPT !.isValidUpdateMatrix = valid]
        clickList == IF config.onClickExceptions.kind = "undefined" THEN Array(<< >>)
                   ELSE config.onClickExceptions
        requestList == IF config.onRequestExceptions.kind = "undefined" THEN Array(<< >>)
                     ELSE config.onRequestExceptions
        o2 == [o1 EXCEPT
                 !.updateMatrix = rulesOf(config.updateMatrix),
                 !.timeout = validateOptionalParam(config.timeout, "number", Num(5000)),
                 !.enableCache =
                    validateOptionalParam(config.enableCache, "boolean", Bool(FALSE)).b,
                 !.onLoad = validateOptionalParam(config.onLoad, "function", Function("noop")),
                 !.onUnload =
                    validateOptionalParam(config.onUnload, "function", Function("noop")),
                 !.onNavigate =
                    validateOptionalParam(config.onNavigate, "function", Function("noop")),
                 !.onLoadDelay = validateOnLoadDelay(config.onLoadDelay),
                 !.onClickExceptions =
                    IF clickList.kind = "array" THEN clickList.items ELSE << >>]
    IN IF valid.threw THEN [o1 EXCEPT !.error = "TypeError"]
       ELSE IF ~valid.ret THEN o1
       ELSE IF requestList.kind = "array" /\ Len(requestList.items) > 0
            THEN IF \E i \in 1..Len(requestList.items) : ~isPattern(requestList.items[i])
                 THEN [o2 EXCEPT !.error = "SyntaxError"]
                 ELSE [o2 EXCEPT !.onRequestExceptions = requestList.items, !.ok = TRUE]
            ELSE [o2 EXCEPT !.ok = TRUE]

\* new Mercury(config): phase is "live" when the listeners are bound, "inert"
\* when the constructor returned early, "threw" when it threw to the caller
constructor(config) ==
  IF ~supported THEN [Unassigned EXCEPT !.phase = "inert"]
  ELSE LET o == validateAndAssignConfig(config, Unassigned)
       IN IF o.error # "" THEN [o EXCEPT !.phase = "threw"]
          ELSE IF ~o.ok THEN [o EXCEPT !.phase = "inert"]
          ELSE [o EXCEPT !.hasEvents = TRUE, !.bound = TRUE, !.phase = "live"]

\* what the variable instance keeps of the fields
instanceOf(o) ==
  [ phase |-> o.phase, error |-> o.error, isValidUpdateMatrix |-> o.isValidUpdateMatrix,
    timeout |-> o.timeout, onLoad |-> o.onLoad, onUnload |-> o.onUnload,
    onNavigate |-> o.onNavigate, hasEvents |-> o.hasEvents ]

----------------------------------------------------------------------------
(* Configurations and the page *)

\* a config object with this update matrix and nothing else
Config(matrix) ==
  [ kind |-> "object", updateMatrix |-> matrix,
    onClickExceptions |-> NotArray("undefined"),
    onRequestExceptions |-> NotArray("undefined"),
    enableCache |-> Undefined, timeout |-> Undefined, onLoad |-> Undefined,
    onUnload |-> Undefined, onNavigate |-> Undefined, onLoadDelay |-> Undefined ]

UpdateMatrices ==
  { Array(<< RuleObject(Str("title"), Bool(TRUE), Undefined),
             RuleObject(Str(".content"), Bool(TRUE), Bool(TRUE)) >>),
    Array(<< RuleObject(Str(".content"), Undefined, Bool(TRUE)) >>),
    Array(<< RuleObject(Str("title"), Bool(TRUE), Bool(TRUE)) >>),
    Array(<< RuleObject(Str("title"), Undefined, Undefined),
             RuleObject(Str(".content"), Bool(TRUE), Undefined) >>) }

\* the update matrix of the navigation runs
TitleAndContent ==
  Array(<< RuleObject(Str("title"), Bool(TRUE), Undefined),
           RuleObject(Str(".content"), Bool(TRUE), Bool(TRUE)) >>)

\* the page the engine is constructed on
InitialDom ==
  [s \in Selectors |-> IF s = "title"
                       THEN Elem("<p>1</p>", [NoAttrs EXCEPT !["id"] = "v1"])
                       ELSE Elem("", [NoAttrs EXCEPT !["class"] = "v1"])]

Delays == {Num(0), Num(200)}

\* the page and the handles of the engine before any event
FreshPage ==
  /\ cache = EmptyCache
  /\ XHR = 0
  /\ onLoadDelayTimeout = 0
  /\ reqs = << >>
  /\ timers = {}
  /\ hist = << [url |-> "/a", state |-> NoState] >>
  /\ hidx = 1
  /\ scrollPos = [x |-> 0, y |-> 0]
  /\ dom = InitialDom
  /\ docUrl = "/a"
  /\ navTo = NoNav
  /\ unloaded = FALSE

\* the fields are those of o
Assigned(o) ==
  /\ instance = instanceOf(o)
  /\ updateMatrix = o.updateMatrix
  /\ enableCache = o.enableCache
  /\ onLoadDelay = o.onLoadDelay
  /\ onRequestExceptions = o.onRequestExceptions
  /\ onClickExceptions = o.onClickExceptions
  /\ bound = o.bound

\* the state after new Mercury(rawConfig) on a fresh page
Constructed ==
  /\ FreshPage
  /\ Assigned(constructor(rawConfig))

----------------------------------------------------------------------------
(* Actions: one per event the host delivers and per public method *)

\* the user scrolls the page
UserScroll(o) ==
  /\ ~unloaded
  /\ o # scrollPos
  /\ scrollPos' = o
  /\ UNCHANGED << fixed, instance, cache, XHR, onLoadDelayTimeout, bound, reqs, timers,
                  hist, hidx, dom, docUrl, navTo, unloaded >>

\* a click: the listener runs when bound; the default action when not
\* prevented.  A click that is not intercepted and has no effect on this page
\* changes nothing and is no step.
Click(e) ==
  /\ ~unloaded
  /\ IF bound /\ intercepts(e)
     THEN Len(reqs) < budget.nav /\ Becomes(onClick(World, e))
     ELSE /\ defaultAction(World, e) # World
          /\ defaultAction(World, e).hist # hist => Len(hist) <= budget.hash
          /\ Becomes(IF bound THEN defaultAction(onClick(World, e), e)
                     ELSE defaultAction(World, e))
  /\ UNCHANGED << fixed, instance, bound, unloaded >>

\* the user goes back or forward to entry j: the browser makes it current,
\* then fires popstate with its state
Traverse(j) ==
  /\ ~unloaded
  /\ j \in 1..Len(hist)
  /\ j # hidx
  /\ LET e == [state |-> hist[j].state]
         w == [World EXCEPT !.hidx = j]
     IN IF bound
        THEN (e.state.has => Len(reqs) < budget.nav) /\ Becomes(onPopState(w, e))
        ELSE Becomes(w)
  /\ UNCHANGED << fixed, instance, bound, unloaded >>

\* the XMLHttpRequest r reaches DONE with this status and responseText
done(w, r, status, responseText) ==
  [w EXCEPT !.reqs[r].st = "done", !.reqs[r].status = status,
            !.reqs[r].responseText = responseText]

\* request r completes with a response of the server
Respond(r, response) ==
  /\ ~unloaded
  /\ r \in 1..Len(reqs)
  /\ reqs[r].st = "sent"
  /\ Becomes(onreadystatechange(done(World, r, response.status, response.responseText), r))
  /\ UNCHANGED << fixed, instance, bound, unloaded >>

\* request r fails in the network
XHRError(r) ==
  /\ ~unloaded
  /\ r \in 1..Len(reqs)
  /\ reqs[r].st = "sent"
  /\ Becomes(onerror(onreadystatechange(done(World, r, 0, EmptyBody), r), r))
  /\ UNCHANGED << fixed, instance, bound, unloaded >>

\* request r exceeds this.timeout
XHRTimeout(r) ==
  /\ ~unloaded
  /\ r \in 1..Len(reqs)
  /\ reqs[r].st = "sent"
  /\ Becomes(ontimeout(onreadystatechange(done(World, r, 0, EmptyBody), r), r))
  /\ UNCHANGED << fixed, instance, bound, unloaded >>

\* the post-load delay of timer t elapses
TimerFire(t) ==
  /\ ~unloaded
  /\ t \in timers
  /\ Becomes(modifyPageAndHistory([World EXCEPT !.timers = @ \ {t}], t,
                                  reqs[t].responseText))
  /\ UNCHANGED << fixed, instance, bound, unloaded >>

\* the (url, selector) pairs the cache holds
committed(c) == {p \in Urls \X Selectors : c[p[1]].map[p[2]].set}

\* the arguments the caller passes: a url and a selector, or a falsy value
CommitInputs == (Urls \X Selectors) \cup {<<"", "title">>, <<"/a", "">>}

CommitCacheEntry(url, selector) ==
  /\ ~unloaded
  /\ instance.phase \in {"live", "inert"}
  /\ cache' = commitCacheEntry(cache, dom, url, selector)
  /\ Cardinality(committed(cache')) <= budget.commit
  /\ UNCHANGED << fixed, instance, XHR, onLoadDelayTimeout, bound, reqs, timers, hist,
                  hidx, scrollPos, dom, docUrl, navTo, unloaded >>

\* destroy() on the object the constructor returned.  Removing a listener
\* that is not bound does nothing; on an object whose constructor returned
\* early this.loadEvent is undefined, and reading its type throws.
Destroy ==
  /\ ~unloaded
  /\ instance.phase \in {"live", "inert"}
  /\ Becomes(destroy(World))
  /\ bound' = FALSE
  /\ instance' = IF instance.hasEvents THEN instance
                 ELSE [instance EXCEPT !.error = "TypeError"]
  /\ UNCHANGED << fixed, unloaded >>

\* new Mercury(rawConfig)
Construct ==
  /\ ~unloaded
  /\ instance.phase = "new"
  /\ LET o == constructor(rawConfig)
     IN /\ instance' = instanceOf(o)
        /\ updateMatrix' = o.updateMatrix
        /\ enableCache' = o.enableCache
        /\ onLoadDelay' = o.onLoadDelay
        /\ onRequestExceptions' = o.onRequestExceptions
        /\ onClickExceptions' = o.onClickExceptions
        /\ bound' = o.bound
  /\ UNCHANGED << supported, rawConfig, budget, cache, XHR, onLoadDelayTimeout, reqs,
                  timers, hist, hidx, scrollPos, dom, docUrl, navTo, unloaded >>

\* the document of the page a top-level navigation has loaded, as far as
\* this model looks at it
LoadedDom == [s \in Selectors |-> Absent]

\* the top-level navigation started by window.location = url commits: the
\* document is unloaded, and with it the engine, its requests, its timers and
\* its cache; the browser adds the entry of the new page and shows it
PageUnload ==
  /\ ~unloaded
  /\ navTo.has
  /\ unloaded' = TRUE
  /\ bound' = FALSE
  /\ Becomes([ cache |-> EmptyCache, reqs |-> << >>, XHR |-> 0, timers |-> {}, onLoadDelayTimeout |-> 0,
               hist |-> Append(SubSeq(hist, 1, hidx),
                               [url |-> navTo.url, state |-> NoState]),
               hidx |-> hidx + 1, scrollPos |-> [x |-> 0, y |-> 0],
               dom |-> LoadedDom, docUrl |-> navTo.url, navTo |-> NoNav ])
  /\ UNCHANGED << fixed, instance >>

Next ==
  \/ \E o \in Offsets : UserScroll(o)
  \/ \E e \in ClickEvents : Click(e)
  \/ \E j \in 1..Len(hist) : Traverse(j)
  \/ \E r \in 1..Len(reqs), response \in Responses : Respond(r, response)
  \/ \E r \in 1..Len(reqs) : XHRError(r)
  \/ \E r \in 1..Len(reqs) : XHRTimeout(r)
  \/ \E t \in timers : TimerFire(t)
  \/ \E p \in CommitInputs : CommitCacheEntry(p[1], p[2])
  \/ Destroy
  \/ PageUnload

\* the events of a page on which new Mercury(rawConfig) is yet to be called
NextConstruct == Construct \/ Next

\* Navigation: an engine without cache, with and without a post-load delay
\* and a request exception
Init ==
  /\ supported = TRUE
  /\ rawConfig \in { [Config(TitleAndContent) EXCEPT
                         !.onLoadDelay = d, !.onRequestExceptions = Array(x),
                         !.onClickExceptions = Array(<<".no-mercury">>)] :
                      d \in Delays, x \in {<< >>, <<"login">>} }
  /\ budget = [nav |-> MaxNav, hash |-> 0, commit |-> 0]
  /\ Constructed

Spec == Init /\ [][Next]_vars

\* the host delivers an outcome to request r: a response, a network error or
\* a timeout
Deliver(r) ==
  \/ \E response \in Responses : Respond(r, response)
  \/ XHRError(r)
  \/ XHRTimeout(r)

\* Spec with a host that does not stall: a request in flight is eventually
\* delivered an outcome, a pending timer eventually fires, and a top-level
\* navigation that has started eventually commits
SpecLive ==
  /\ Init
  /\ [][Next]_vars
  /\ \A r \in 1..MaxNav : WF_vars(Deliver(r))
  /\ \A t \in 1..MaxNav : WF_vars(TimerFire(t))
  /\ WF_vars(PageUnload)

\* Patching: an engine with and without the cache, under each update matrix
InitCache ==
  /\ supported = TRUE
  /\ rawConfig \in { [Config(m) EXCEPT
                         !.enableCache = Bool(c), !.onLoadDelay = d,
                         !.onClickExceptions = Array(<<".no-mercury">>)] :
                      m \in UpdateMatrices, c \in BOOLEAN, d \in Delays }
  /\ budget = [nav |-> MaxCacheNav, hash |-> 0, commit |-> MaxCommit]
  /\ Constructed

SpecCache == InitCache /\ [][Next]_vars

\* Same-page hash links: history entries without a state object
InitHash ==
  /\ supported = TRUE
  /\ rawConfig \in { [Config(TitleAndContent) EXCEPT
                         !.onLoadDelay = d,
                         !.onClickExceptions = Array(<<".no-mercury">>)] : d \in Delays }
  /\ budget = [nav |-> MaxCacheNav, hash |-> 1, commit |-> 0]
  /\ Constructed

SpecHash == InitHash /\ [][Next]_vars

\* update matrices that pass isValidUpdateMatrix and hold a selector at which
\* document.querySelector throws, as the first rule or after a rule it can apply
ThrowingMatrices ==
  { Array(<< RuleObject(Str("div["), Bool(TRUE), Undefined) >>),
    Array(<< RuleObject(Str("title"), Bool(TRUE), Undefined),
             RuleObject(Str("div["), Bool(TRUE), Undefined) >>) }

InitThrow ==
  /\ supported = TRUE
  /\ rawConfig \in { [Config(m) EXCEPT
                         !.onLoadDelay = d,
                         !.onClickExceptions = Array(<<".no-mercury">>)] :
                      m \in ThrowingMatrices, d \in Delays }
  /\ budget = [nav |-> MaxNav, hash |-> 0, commit |-> 0]
  /\ Constructed

SpecThrow == InitThrow /\ [][Next]_vars

\* the rules a caller may write
RuleValues ==
  { RuleObject(selector, updateHTML, updateAttrs) :
      selector \in {Str("title"), Num(1234)},
      updateHTML \in {Undefined, Bool(TRUE), Null},
      updateAttrs \in {Undefined, Bool(FALSE), Str("yes")} }
  \cup {NotObject("null"), NotObject("number")}

\* the values a caller may pass as updateMatrix
MatrixValues ==
  {NotArray("undefined"), NotArray("string"), NotArray("object")}
  \cup {Array(items) : items \in UNION {[1..n -> RuleValues] : n \in 0..MaxRules}}

\* the values a caller may pass for an optional field
OptionValues ==
  { Undefined, Null, NaN, Bool(TRUE), Bool(FALSE), Num(-100), Num(0), Num(200),
    Str("x"), Function("user") }

\* the arguments of new Mercury: no object; an object with any update
\* matrix; an object with a valid matrix and one optional field set
Configs ==
  { [Config(TitleAndContent) EXCEPT !.kind = k] : k \in {"undefined", "null"} }
  \cup { Config(m) : m \in MatrixValues }
  \cup { [Config(TitleAndContent) EXCEPT !.timeout = v] : v \in OptionValues }
  \cup { [Config(TitleAndContent) EXCEPT !.enableCache = v] : v \in OptionValues }
  \cup { [Config(TitleAndContent) EXCEPT !.onLoad = v] : v \in OptionValues }
  \cup { [Config(TitleAndContent) EXCEPT !.onUnload = v] : v \in OptionValues }
  \cup { [Config(TitleAndContent) EXCEPT !.onNavigate = v] : v \in OptionValues }
  \cup { [Config(TitleAndContent) EXCEPT !.onLoadDelay = v] : v \in OptionValues }
  \cup { [Config(TitleAndContent) EXCEPT !.onRequestExceptions = x] :
           x \in {NotArray("null"), NotArray("string"), Array(<< >>),
                  Array(<<"login">>), Array(<<"(">>)} }
  \cup { [Config(TitleAndContent) EXCEPT !.onClickExceptions = x] :
           x \in {NotArray("null"), Array(<<".no-mercury">>)} }

\* Construction: a page on which new Mercury(rawConfig) is called, in a
\* browser that supports the engine and in one that does not
InitConstruct ==
  /\ \/ supported = TRUE /\ rawConfig \in Configs
     \/ supported = FALSE /\ rawConfig = Config(TitleAndContent)
  /\ budget = [nav |-> MaxCacheNav, hash |-> 0, commit |-> 0]
  /\ FreshPage
  /\ Assigned(Unassigned)

SpecConstruct == InitConstruct /\ [][NextConstruct]_vars

----------------------------------------------------------------------------
(* Vocabulary of the properties *)

Requests == 1..Len(reqs)

\* the requests that have been sent and have not completed
InFlight == {r \in Requests : reqs[r].st = "sent"}

\* the latest navigation dispatched
Latest == Len(reqs)

IsApplyEffect(x) == x \in {"pushState", "updateDOM", "callback", "load"}

\* the effects of the apply step in a request's record
Applied(fx) == SelectSeq(fx, IsApplyEffect)

Has(fx, x) == \E i \in 1..Len(fx) : fx[i] = x

IsPrefix(s, t) == Len(s) <= Len(t) /\ SubSeq(t, 1, Len(s)) = s

\* the effects of a navigation that is applied, in the order claimed
ExpectedEffects(q) ==
  <<"unload">> \o (IF q.isPopState THEN << >> ELSE <<"pushState">>) \o <<"updateDOM">>
  \o (IF q.callback.has THEN <<"callback">> ELSE << >>) \o <<"load">>

\* request r completes in this step
Completes(r) == r \in Requests /\ reqs[r].st = "sent" /\ r <= Len(reqs') /\ reqs'[r].st = "done"

\* the apply step of request r runs in this step
Applies(r) == r \in Requests /\ r <= Len(reqs') /\ Has(reqs'[r].fx, "load") /\ ~Has(reqs[r].fx, "load")

\* a navigation is dispatched in this step
Dispatches == Len(reqs') = Len(reqs) + 1

\* this step does nothing but start a top-level navigation to the URL of r
FallsBack(r) ==
  /\ navTo' = [has |-> TRUE, url |-> reqs[r].url]
  /\ ~Has(reqs'[r].fx, "unload")
  /\ Applied(reqs'[r].fx) = << >>
  /\ Len(reqs') = Len(reqs)
  /\ \A k \in Requests \ {r} : reqs'[k] = reqs[k]
  /\ XHR' = XHR
  /\ timers' = timers
  /\ dom' = dom
  /\ docUrl' = docUrl
  /\ hist' = hist
  /\ hidx' = hidx
  /\ scrollPos' = scrollPos

----------------------------------------------------------------------------
(* C1 *)

\* C1: at most one request is in flight at any instant, and a request that a
\* newer dispatch has aborted has never run its completion handler: it has
\* produced no effect.
C1_OneRequestAbortedSilently ==
  /\ Cardinality(InFlight) <= 1
  /\ \A r \in Requests : (r < Latest /\ reqs[r].st = "aborted") => reqs[r].fx = << >>

----------------------------------------------------------------------------
(* C2 *)

\* C2: latest navigation wins.  Once a newer navigation has been dispatched,
\* no step adds a history push, a DOM patch, a callback or a load notification
\* to an earlier navigation, and every step that changes the document of the
\* living page is the apply step of the latest navigation.
C2_LatestWins ==
  [][ /\ \A r \in Requests :
           (r < Len(reqs')) => Applied(reqs'[r].fx) = Applied(reqs[r].fx)
      /\ (dom' # dom /\ ~unloaded') => Applies(Latest)
    ]_vars

\* an earlier response was waiting on the post-load delay when a newer
\* navigation was dispatched, and the newer one has been applied
C2_Witness ==
  \E r \in Requests :
    /\ r < Latest
    /\ reqs[r].st = "done"
    /\ reqs[r].fx = <<"unload">>
    /\ Has(reqs[Latest].fx, "load")

----------------------------------------------------------------------------
(* C3 *)

\* C3: the effects of a navigation whose response is applied occur in the
\* order unload, history push (unless a replay), DOM patch, callback (if any),
\* load; nothing of the apply step precedes unload; with a post-load delay the
\* apply step runs in a later step than unload, from the pending timer, and
\* without one in the same step.
C3_EffectOrder ==
  /\ [](\A r \in Requests :
          /\ (Has(reqs[r].fx, "unload") \/ Applied(reqs[r].fx) # << >>)
                => IsPrefix(reqs[r].fx, ExpectedEffects(reqs[r]))
          /\ Has(reqs[r].fx, "load") => reqs[r].fx = ExpectedEffects(reqs[r]))
  /\ [][\A r \in Requests :
          (r <= Len(reqs') /\ Applied(reqs'[r].fx) # Applied(reqs[r].fx))
            => IF truthy(onLoadDelay)
               THEN reqs[r].fx = <<"unload">> /\ r \in timers
               ELSE reqs[r].fx = << >>
       ]_vars

\* a replay and a click navigation have both been applied after the delay
C3_Witness ==
  /\ truthy(onLoadDelay)
  /\ \E r \in Requests :
       reqs[r].fx = <<"unload", "updateDOM", "callback", "load">>
  /\ \E r \in Requests :
       reqs[r].fx = <<"unload", "pushState", "updateDOM", "load">>

----------------------------------------------------------------------------
(* C4 *)

\* C4: a request that ends with a status other than 200, a network error or a
\* timeout starts a top-level navigation to its URL and does nothing else: no
\* DOM mutation, no history change, no unload or load notification, no new
\* request.
C4_FailureFallsBack ==
  [][\A r \in Requests :
       (Completes(r) /\ reqs'[r].status # 200) => FallsBack(r)
    ]_vars

\* a request was answered 404 and a top-level navigation to its URL is pending
C4_Witness ==
  \E r \in Requests :
    /\ reqs[r].st = "done"
    /\ reqs[r].status = 404
    /\ reqs[r].fx = <<"location">>
    /\ navTo = [has |-> TRUE, url |-> reqs[r].url]

----------------------------------------------------------------------------
(* C5 *)

\* the body contains one of the configured request exceptions
BodyMatches(responseText) ==
  \E i \in 1..Len(onRequestExceptions) : onRequestExceptions[i] \in responseText.words

\* C5: a status-200 response whose body matches the configured request
\* exception starts a top-level navigation and does nothing else; with no
\* exception configured, or no match, the response is applied as a soft
\* navigation: unload fires, and the apply step runs at once or is scheduled
\* after the post-load delay.
C5_RequestException ==
  [][\A r \in Requests :
       (Completes(r) /\ reqs'[r].status = 200)
         => IF BodyMatches(reqs'[r].responseText)
            THEN FallsBack(r)
            ELSE /\ navTo' = navTo
                 /\ IF truthy(onLoadDelay)
                    THEN reqs'[r].fx = <<"unload">> /\ r \in timers'
                    ELSE /\ reqs'[r].fx = ExpectedEffects(reqs[r])
                         /\ docUrl' = reqs[r].url
    ]_vars

\* a 200 response that matches the exception has started a top-level navigation
C5_Witness ==
  \E r \in Requests :
    /\ reqs[r].st = "done"
    /\ reqs[r].status = 200
    /\ "login" \in reqs[r].responseText.words
    /\ reqs[r].fx = <<"location">>
    /\ navTo = [has |-> TRUE, url |-> reqs[r].url]

----------------------------------------------------------------------------
(* C6 *)

\* C6: each time a navigation is dispatched, by click or by traversal, the
\* entry of the page being left (the entry that was current before the step)
\* is rewritten to carry the scroll offset of that moment.
C6_ScrollCapturedForPageLeft ==
  [][Dispatches
       => /\ hist'[hidx].state.has
          /\ hist'[hidx].state.scroll = Scroll(scrollPos.x, scrollPos.y)
    ]_vars

----------------------------------------------------------------------------
(* C7 *)

\* no request in flight, no delayed apply pending, and no top-level
\* navigation about to replace the page
Quiescent == InFlight = {} /\ timers = {} /\ ~navTo.has

\* C7: whenever the engine is quiescent, the URL of the current history entry
\* is the URL whose content the document shows, after any sequence of clicks,
\* traversals, responses, superseded navigations, aborts and destroy: every
\* step of an engine that is listening, its destroy included, that ends in a
\* quiescent state ends with the two URLs equal.
C7_HistoryMatchesDocument ==
  [][(bound /\ Quiescent') => hist'[hidx'].url = docUrl']_vars

----------------------------------------------------------------------------
(* C8 *)

Urls_of(h) == [i \in 1..Len(h) |-> h[i].url]

----------------------------------------------------------------------------
(* C9 *)

----------------------------------------------------------------------------
(* C10 *)

\* C10: on a cache-enabled engine, once commitCacheEntry(url, selector) has
\* captured markup M, every apply step for that url leaves the live element
\* of each rule with updateHTML for that selector holding M, whatever the
\* response holds for the selector.
C10_CacheRoundTrip ==
  [][\A r \in Requests : \A i \in 1..Len(updateMatrix) :
       LET url == reqs[r].url
           selector == updateMatrix[i].selector
       IN (/\ Applies(r)
           /\ enableCache
           /\ updateMatrix[i].updateHTML
           /\ cache[url].has
           /\ cache[url].map[selector].set
           /\ dom[selector].present)
            => /\ dom'[selector].present
               /\ dom'[selector].html = cache[url].map[selector].html
    ]_vars

----------------------------------------------------------------------------
(* C11 *)

\* C11: the cache changes only through commitCacheEntry on a cache-enabled
\* engine.  A step of the living page that changes the cache changes nothing
\* else, opens the map of one url and writes at most one (url, selector)
\* entry, with the live element's markup; no navigation, response, patch,
\* abort or fallback changes it.  With caching disabled the cache never
\* changes, and every patch writes the markup of the response.
C11_CacheFrame ==
  [][ /\ (cache' # cache /\ ~unloaded')
           => /\ enableCache
              /\ UNCHANGED << XHR, onLoadDelayTimeout, bound, reqs, timers, hist, hidx,
                              scrollPos, dom, docUrl, navTo >>
              /\ \E u \in Urls, sel \in Selectors :
                   \/ cache' = [cache EXCEPT ![u].has = TRUE]
                   \/ cache' = [cache EXCEPT ![u].has = TRUE,
                                             ![u].map[sel] = [set |-> TRUE,
                                                              html |-> dom[sel].html]]
      /\ ~enableCache => cache' = cache
      /\ \A r \in Requests : \A i \in 1..Len(updateMatrix) :
           LET sel == updateMatrix[i].selector
           IN (/\ Applies(r)
               /\ ~enableCache
               /\ updateMatrix[i].updateHTML
               /\ dom[sel].present
               /\ reqs'[r].responseText.doc[sel].present)
                => dom'[sel].html = reqs'[r].responseText.doc[sel].html
    ]_vars

\* an entry was committed, a navigation has been applied, and the entry holds
\* what the commit captured
C11_Witness ==
  /\ enableCache
  /\ \E r \in Requests : Has(reqs[r].fx, "load")
  /\ cache["/b"].map["title"] = [set |-> TRUE, html |-> "<p>1</p>"]

----------------------------------------------------------------------------
(* C15 *)

\* the update matrix is an array of rules that each have a string selector
\* and flags that are absent or boolean
WellFormed(matrix) ==
  /\ matrix.kind = "array"
  /\ \A i \in 1..Len(matrix.items) :
       /\ matrix.items[i].selector.kind = "string"
       /\ matrix.items[i].updateHTML.kind \in {"undefined", "boolean"}
       /\ matrix.items[i].updateAttrs.kind \in {"undefined", "boolean"}

\* C15: new Mercury(config) never throws to the caller, whatever config is;
\* when the browser lacks what the engine needs or the update matrix is
\* invalid the object returned is inert: no listener bound, no request ever
\* issued.
C15_ConstructorNeverThrows ==
  /\ instance.phase # "threw"
  /\ (instance.phase # "new" /\ (~supported \/ ~WellFormed(rawConfig.updateMatrix)))
       => instance.phase = "inert"
  /\ instance.phase = "inert" => ~bound /\ reqs = << >>

----------------------------------------------------------------------------
(* C16 *)

\* C16: isValidUpdateMatrix(matrix) returns true if and only if matrix is an
\* array whose rules each have a string selector and flags that are absent or
\* boolean, and returns false for every other input.
C16_IsValidUpdateMatrix ==
  instance.isValidUpdateMatrix.called
    => /\ ~instance.isValidUpdateMatrix.threw
       /\ instance.isValidUpdateMatrix.ret <=> WellFormed(rawConfig.updateMatrix)

----------------------------------------------------------------------------
(* C17 *)

\* C17: on a constructed engine every optional field that was absent or of
\* the wrong type holds its default (timeout 5000, cache disabled, no-op
\* callbacks, delay 0), a correctly typed value is kept, and the post-load
\* delay is a number greater than or equal to 0.
C17_OptionalFields ==
  instance.phase = "live"
    => /\ instance.timeout = IF typeof(rawConfig.timeout) = "number" THEN rawConfig.timeout
                             ELSE Num(5000)
       /\ enableCache = (rawConfig.enableCache.kind = "boolean" /\ rawConfig.enableCache.b)
       /\ instance.onLoad = IF rawConfig.onLoad.kind = "function" THEN rawConfig.onLoad
                            ELSE Function("noop")
       /\ instance.onUnload = IF rawConfig.onUnload.kind = "function" THEN rawConfig.onUnload
                              ELSE Function("noop")
       /\ instance.onNavigate = IF rawConfig.onNavigate.kind = "function"
                                THEN rawConfig.onNavigate
                                ELSE Function("noop")
       /\ onLoadDelay.kind = "number"
       /\ onLoadDelay.n >= 0
       /\ (rawConfig.onLoadDelay.kind = "number" /\ rawConfig.onLoadDelay.n >= 0)
            => onLoadDelay = rawConfig.onLoadDelay
       /\ (rawConfig.onLoadDelay.kind \notin {"number", "NaN"} \/ rawConfig.onLoadDelay.n < 0)
            => onLoadDelay = Num(0)

----------------------------------------------------------------------------
(* C12 *)

\* C12: destroy() raises no error in whatever state the object is, and on an
\* engine that is already destroyed a second destroy() changes nothing: no
\* request is aborted again, no timer is cleared again, and the state is the
\* one the first call left.
C12_DestroyIsSafeAndIdempotent ==
  /\ instance.phase \in {"live", "inert"} => instance.error = ""
  /\ (instance.phase = "live" /\ ~bound /\ ~unloaded) => destroy(World) = World

----------------------------------------------------------------------------
(* C13 *)

\* the first hyperlink element on the way up from the event target, below
\* document.body; 0 when there is none
FirstLink(e) ==
  LET links == {i \in 1..Len(e.path) :
                  /\ e.path[i].tagName = "A"
                  /\ \A j \in 1..(i - 1) : e.path[j].tagName \notin {"A", "BODY"}}
  IN IF links = {} THEN 0 ELSE CHOOSE i \in links : TRUE

\* the element is one the exception selectors name: a link without href, an
\* href to another origin, a hash, a telephone number, a mail address or a
\* script, a link that opens a new tab, or one the caller has excluded
Excepted(node) ==
  \/ node.hrefKind \in {"none", "http", "#", "/#", "tel", "mailto", "javascript"}
  \/ node.target = "_blank"
  \/ \E i \in 1..Len(onClickExceptions) :
       onClickExceptions[i] = ".no-mercury" /\ node.class = "no-mercury"

\* C13: on a listening engine a click is intercepted if and only if no
\* modifier key is held, the walk up from the target reaches a hyperlink
\* element and that element matches no exception selector.  The intercepted
\* click dispatches exactly one request, for the link's href, that is not a
\* history replay; any other click changes nothing of the engine: no request,
\* and the request in flight and the pending timer stay as they are.
C13_ClickInterception ==
  (bound /\ ~unloaded) =>
    \A e \in ClickEvents :
      LET w == onClick(World, e)
          i == FirstLink(e)
          n == Len(reqs) + 1
      IN IF ~e.keys.metaKey /\ ~e.keys.ctrlKey /\ ~e.keys.altKey /\ ~e.keys.shiftKey
            /\ i # 0 /\ ~Excepted(e.path[i])
         THEN /\ intercepts(e)
              /\ Len(w.reqs) = n
              /\ w.XHR = n
              /\ w.reqs[n].url = e.path[i].href
              /\ ~w.reqs[n].isPopState
              /\ w.reqs[n].st = "sent"
              /\ \A r \in 1..Len(reqs) : w.reqs[r].st # "sent"
         ELSE /\ ~intercepts(e)
              /\ w = World

\* a click was intercepted while an earlier request was in flight, and its
\* request is the one in flight now
C13_Witness ==
  /\ bound
  /\ Len(reqs) >= 2
  /\ reqs[1].st = "aborted"
  /\ ~reqs[Len(reqs)].isPopState
  /\ reqs[Len(reqs)].st = "sent"
  /\ reqs[Len(reqs)].url = "/b"

----------------------------------------------------------------------------
(* C18 *)

\* the request whose patch the document shows: the last one that ran updateDOM
LastPatch == {r \in Requests : /\ Has(reqs[r].fx, "updateDOM")
                               /\ \A q \in Requests : q > r => ~Has(reqs[q].fx, "updateDOM")}

\* C18: after a patch, every element named by a rule with updateAttrs that is
\* in the live document and in the response's document has exactly the
\* attributes of the response's element: none of its old ones left, none of
\* the new ones missing.  That is so whether or not the rule has updateHTML,
\* and whether the markup came from the response or from the cache.
C18_AttributesReplaced ==
  \A r \in LastPatch :
    \A i \in 1..Len(updateMatrix) :
      LET selector == updateMatrix[i].selector
          referenceElement == reqs[r].responseText.doc[selector]
      IN (updateMatrix[i].updateAttrs /\ dom[selector].present /\ referenceElement.present)
           => dom[selector].attrs = referenceElement.attrs

\* a patch has replaced the attributes of the title, which had an id and has
\* a class now, while its markup came from the cache and differs from the
\* response's
C18_Witness ==
  /\ enableCache
  /\ \E r \in LastPatch :
       /\ \E i \in 1..Len(updateMatrix) :
            /\ updateMatrix[i].selector = "title"
            /\ updateMatrix[i].updateHTML
            /\ updateMatrix[i].updateAttrs
       /\ cacheTruthy(reqs[r].url, "title")
       /\ dom["title"].html = cache[reqs[r].url].map["title"].html
       /\ dom["title"].html # reqs[r].responseText.doc["title"].html
       /\ dom["title"].attrs = reqs[r].responseText.doc["title"].attrs
       /\ dom["title"].attrs # InitialDom["title"].attrs

----------------------------------------------------------------------------
(* C19 *)

\* the rules of the update matrix that name this selector
RulesFor(selector) == {i \in 1..Len(updateMatrix) : updateMatrix[i].selector = selector}

\* C19: whatever the document, the cache and the response are, the patch
\* treats each selector by where it is found.  Found in both documents, the
\* live element takes the new markup if its rule has updateHTML and the
\* response's attributes if it has updateAttrs, and is left as it is by a
\* rule with neither; found in the live document only, it is removed; found
\* in neither or in the response only, nothing changes for it.  A selector no
\* rule names is not touched.  When the patch ends the scroll position is (0,0).
C19_PatchByPresence ==
  \A url \in Urls : \A responseText \in Bodies :
    LET w == updateDOM(World, url, responseText)
    IN /\ w.scrollPos = [x |-> 0, y |-> 0]
       /\ \A selector \in Selectors :
            LET live == dom[selector]
                reference == responseText.doc[selector]
                after == w.dom[selector]
            IN IF RulesFor(selector) = {} THEN after = live
               ELSE \A i \in RulesFor(selector) :
                      IF live.present /\ reference.present
                      THEN /\ after.present
                           /\ after.html =
                                IF ~updateMatrix[i].updateHTML THEN live.html
                                ELSE IF enableCache /\ cache[url].has
                                        /\ cache[url].map[selector].set
                                        /\ cache[url].map[selector].html # ""
                                     THEN cache[url].map[selector].html
                                     ELSE reference.html
                           /\ after.attrs = IF updateMatrix[i].updateAttrs
                                            THEN reference.attrs ELSE live.attrs
                      ELSE IF live.present THEN ~after.present
                      ELSE after = live

\* a patch has removed the content element, which the response did not have,
\* has left the title alone under a rule without flags, and the page is at
\* the top
C19_Witness ==
  \E r \in LastPatch :
    /\ ~reqs[r].responseText.doc[".content"].present
    /\ ~dom[".content"].present
    /\ \E i \in RulesFor("title") :
         ~updateMatrix[i].updateHTML /\ ~updateMatrix[i].updateAttrs
    /\ reqs[r].responseText.doc["title"].present
    /\ dom["title"] = InitialDom["title"]
    /\ dom["title"] # reqs[r].responseText.doc["title"]
    /\ scrollPos = [x |-> 0, y |-> 0]

----------------------------------------------------------------------------
(* C20 *)

\* destroy() has returned on an engine that was listening, and the page is
\* still the one it ran on
Destroyed == instance.phase = "live" /\ ~bound /\ ~unloaded

\* C20: from destroy() on the engine has no effect.  No step that ends with
\* the engine destroyed, the destroy() call included, adds an effect (a
\* history push, a patch, a callback, a load notification, a top-level
\* navigation) to any request, dispatches a request, or changes the
\* document; and once the engine is destroyed nothing is in flight and no
\* timer is pending.
C20_NoEffectAfterDestroy ==
  [][ Destroyed' =>
        /\ Len(reqs') = Len(reqs)
        /\ \A r \in Requests : reqs'[r].fx = reqs[r].fx
        /\ dom' = dom
        /\ docUrl' = docUrl
        /\ \A r \in 1..Len(reqs') : reqs'[r].st # "sent"
        /\ timers' = {} ]_vars

----------------------------------------------------------------------------
(* C14 *)

\* request r has been dispatched and is the navigation under way
Pending(r) == r \in Requests /\ r = Latest /\ reqs[r].st = "sent"

\* the user has started a top-level navigation: one is under way that no
\* request of the engine asked for
UserLeaves ==
  /\ navTo.has
  /\ \A q \in Requests : ~(Has(reqs[q].fx, "location") /\ reqs[q].url = navTo.url)

\* request r has ended in one of the two ways, or is exempt: a later
\* navigation superseded it, destroy() cancelled it, or the user is leaving
\* the page
Settled(r) ==
  \/ /\ r \in Requests
     /\ \/ Has(reqs[r].fx, "load") /\ ~Has(reqs[r].fx, "location")
        \/ Has(reqs[r].fx, "location") /\ ~Has(reqs[r].fx, "load")
        \/ navTo = [has |-> TRUE, url |-> reqs[r].url] /\ ~Has(reqs[r].fx, "load")
        \/ r < Latest
  \/ Destroyed
  \/ UserLeaves

\* C14: with a host that does not stall, every navigation dispatched is
\* eventually applied with its load notification, or replaced by a top-level
\* navigation to its URL, unless a later navigation supersedes it, destroy()
\* cancels it, or the user leaves the page.
C14_NavigationEnds ==
  \A r \in 1..MaxNav : Pending(r) ~> Settled(r)

----------------------------------------------------------------------------
(* C23 *)

\* C23: at most one delayed-apply timer is pending, and none while a request
\* is in flight.  A pending timer is the one this.onLoadDelayTimeout names; it
\* was set by the 200 response of the latest request, which is done.
C23_OneTimerNoRequest ==
  /\ Cardinality(timers) <= 1
  /\ timers # {} => InFlight = {}
  /\ \A t \in timers :
       /\ t = Latest
       /\ t = onLoadDelayTimeout
       /\ reqs[t].st = "done"
       /\ reqs[t].status = 200
       /\ reqs[t].fx = <<"unload">>

\* the response of the second navigation has set a timer, after the dispatch
\* of that navigation cancelled the timer the first one had pending
C23_Witness ==
  /\ timers = {2}
  /\ reqs[1].st = "done"
  /\ reqs[1].fx = <<"unload">>
  /\ reqs[2].st = "done"

----------------------------------------------------------------------------
(* C22 *)

\* C22 as stated: the steps of every dispatch are the onNavigate
\* notification, the scroll capture, the abort of the request in flight with
\* the cancellation of the timer when there is a request to abort, and the
\* send, in this order.
C22_NotifyCaptureAbortSend ==
  \A r \in Requests :
    reqs[r].pre \in { <<"onNavigate", "replaceState", "send">>,
                      <<"onNavigate", "replaceState", "abort", "clearTimeout", "send">> }

\* C22, amended: the first dispatch of an engine notifies onNavigate, captures
\* the scroll position and sends; every later dispatch first aborts the
\* previous request and cancels the timer, and only then notifies onNavigate,
\* captures the scroll position and sends.  While the request dispatched is
\* in flight no other request is, and no timer is pending.
C22_AbortThenNotify ==
  \A r \in Requests :
    /\ reqs[r].pre = IF r = 1 THEN <<"onNavigate", "replaceState", "send">>
                     ELSE <<"abort", "clearTimeout", "onNavigate", "replaceState", "send">>
    /\ reqs[r].st = "sent" => InFlight = {r} /\ timers = {} /\ XHR = r

\* a second navigation is in flight; its dispatch aborted the first, which
\* was in flight, before it notified onNavigate
C22_Witness ==
  /\ Len(reqs) = 2
  /\ reqs[1].st = "aborted"
  /\ reqs[2].st = "sent"
  /\ reqs[2].pre = <<"abort", "clearTimeout", "onNavigate", "replaceState", "send">>

----------------------------------------------------------------------------
(* C21 *)

\* the apply step of request r ends with an exception in this step
Throws_in(r) ==
  r \in Requests /\ r <= Len(reqs') /\ Has(reqs'[r].fx, "throw") /\ ~Has(reqs[r].fx, "throw")

\* C21: when the apply step of a successful response raises an exception,
\* immediately or after the delay, the exception is caught and logged, no
\* top-level navigation is started, the history entries, the position in them
\* and the document are as they were before the step, and the engine goes on
\* listening.
C21_ExceptionLeavesStateConsistent ==
  [][ \A r \in Requests :
        Throws_in(r)
          => /\ Has(reqs'[r].fx, "console.error")
             /\ ~Has(reqs'[r].fx, "location")
             /\ navTo' = navTo
             /\ Urls_of(hist') = Urls_of(hist)
             /\ hidx' = hidx
             /\ dom' = dom
             /\ bound' = bound ]_vars

============================================================================
